---------------------------- MODULE Spec2Model ----------------------------
(***************************************************************************)
(* Model of the packaging descriptor setup.py of `bl` and of the install   *)
(* it drives: the keyword arguments of the setup() call, the requirement   *)
(* strings of install_requires read as setuptools reads them (project      *)
(* name, comparison clauses, dotted version), the build of the scripts,    *)
(* the resolution of the requirements against the target environment and   *)
(* the copy of the scripts onto the command path.  The bl script itself   *)
(* is not part of the sources at hand: its Session Driver is modelled from *)
(* the written description of it, under a specification of its own.       *)
(*                                                                         *)
(* Requirement strings are sequences of one-character strings, so that     *)
(* reading them is a computation and not an identity.                      *)
(***************************************************************************)
EXTENDS Integers, Sequences, FiniteSets, TLC

(***************************************************************************)
(* Bounds of the model.                                                    *)
(***************************************************************************)
MaxMajor == 5

\* the most often one command is sent before bl stops trying (the retries
\* of bl are given no bound anywhere; this one keeps the model finite)
MaxAttempts == 3

\* how long bl waits on one expected pattern, in ticks
Timeout == 2

MinorSet == {0, 4, 8, 9}

PatchSet == {0, 4, 5}

None == "None"

\* the environment offers no version of a project
NoVersion == <<>>

(***************************************************************************)
(* Reading a requirement string.                                           *)
(***************************************************************************)
OpChars == {"<", ">", "=", "!", "~"}

DigitVal ==
  ("0" :> 0) @@ ("1" :> 1) @@ ("2" :> 2) @@ ("3" :> 3) @@ ("4" :> 4) @@
  ("5" :> 5) @@ ("6" :> 6) @@ ("7" :> 7) @@ ("8" :> 8) @@ ("9" :> 9)

RECURSIVE TakeWhile(_, _)
TakeWhile(s, S) ==
  IF s = <<>> \/ Head(s) \notin S THEN <<>>
  ELSE <<Head(s)>> \o TakeWhile(Tail(s), S)

RECURSIVE DropWhile(_, _)
DropWhile(s, S) ==
  IF s = <<>> \/ Head(s) \notin S THEN s
  ELSE DropWhile(Tail(s), S)

RECURSIVE TakeUntil(_, _)
TakeUntil(s, S) ==
  IF s = <<>> \/ Head(s) \in S THEN <<>>
  ELSE <<Head(s)>> \o TakeUntil(Tail(s), S)

RECURSIVE DropUntil(_, _)
DropUntil(s, S) ==
  IF s = <<>> \/ Head(s) \in S THEN s
  ELSE DropUntil(Tail(s), S)

\* s cut at every occurrence of the character sep
RECURSIVE SplitOn(_, _)
SplitOn(s, sep) ==
  LET first == TakeUntil(s, {sep})
      rest  == DropUntil(s, {sep})
  IN  IF rest = <<>> THEN <<first>>
      ELSE <<first>> \o SplitOn(Tail(rest), sep)

RECURSIVE ParseIntFrom(_, _)
ParseIntFrom(s, acc) ==
  IF s = <<>> THEN acc
  ELSE ParseIntFrom(Tail(s), (10 * acc) + DigitVal[Head(s)])

ParseInt(s) == ParseIntFrom(s, 0)

\* "1.4.4" -> <<1, 4, 4>>
RECURSIVE ParseSegments(_)
ParseSegments(parts) ==
  IF parts = <<>> THEN <<>>
  ELSE <<ParseInt(Head(parts))>> \o ParseSegments(Tail(parts))

ParseVersion(s) == ParseSegments(SplitOn(s, "."))

\* ">=1.4.4" -> [op |-> ">=", ver |-> <<1, 4, 4>>]
ParseClause(s) ==
  [op |-> TakeWhile(s, OpChars), ver |-> ParseVersion(DropWhile(s, OpChars))]

RECURSIVE ParseClauses(_)
ParseClauses(cs) ==
  IF cs = <<>> THEN <<>>
  ELSE <<ParseClause(Head(cs))>> \o ParseClauses(Tail(cs))

\* "appdirs>=1.4.4" -> [name |-> "appdirs", clauses |-> << clause >>]
ParseRequirement(s) ==
  LET spec == DropUntil(s, OpChars)
  IN  [name    |-> TakeUntil(s, OpChars),
       clauses |-> IF spec = <<>> THEN <<>>
                   ELSE ParseClauses(SplitOn(spec, ","))]

(***************************************************************************)
(* Comparing versions: release segments, compared left to right, the       *)
(* shorter one padded with zeros.                                          *)
(***************************************************************************)
Seg(v, i) == IF i <= Len(v) THEN v[i] ELSE 0

RECURSIVE VersionCmpFrom(_, _, _)
VersionCmpFrom(a, b, i) ==
  IF i > Len(a) /\ i > Len(b) THEN 0
  ELSE IF Seg(a, i) < Seg(b, i) THEN -1
  ELSE IF Seg(a, i) > Seg(b, i) THEN 1
  ELSE VersionCmpFrom(a, b, i + 1)

VersionCmp(a, b) == VersionCmpFrom(a, b, 1)

\* whether version v passes one clause of a version specifier
ClauseContains(c, v) ==
  LET k == VersionCmp(v, c.ver)
  IN  CASE c.op = <<">", "=">> -> k >= 0
        [] c.op = <<"<", "=">> -> k <= 0
        [] c.op = <<"=", "=">> -> k = 0
        [] c.op = <<"!", "=">> -> k # 0
        [] c.op = <<">">>      -> k > 0
        [] c.op = <<"<">>      -> k < 0
        [] c.op = <<"~", "=">> ->
             /\ k >= 0
             /\ \A i \in 1..(Len(c.ver) - 1) : Seg(v, i) = c.ver[i]
        [] OTHER -> FALSE

\* whether version v satisfies the parsed requirement r
SpecifierContains(r, v) ==
  \A i \in 1..Len(r.clauses) : ClauseContains(r.clauses[i], v)


(***************************************************************************)
(* The setup() call of setup.py.                                           *)
(***************************************************************************)
Str_appdirs == <<"a", "p", "p", "d", "i", "r", "s">>

Str_pexpect == <<"p", "e", "x", "p", "e", "c", "t">>

\* a project no requirement of setup.py names
Str_dbus == <<"d", "b", "u", "s">>

\* scripts naming a file the repository does not hold
scripts_Missing == <<"bl.py">>

scripts == <<"bl">>

\* a third requirement beside the two
install_requires_Three ==
  << Str_appdirs \o <<">", "=", "1", ".", "4", ".", "4">>,
     Str_pexpect \o <<">", "=", "4", ".", "8", ".", "0">>,
     Str_dbus >>

\* appdirs pinned to one version instead of bounded from below
install_requires_Pinned ==
  << Str_appdirs \o <<"=", "=", "1", ".", "4", ".", "4">>,
     Str_pexpect \o <<">", "=", "4", ".", "8", ".", "0">> >>

install_requires ==
  << Str_appdirs \o <<">", "=", "1", ".", "4", ".", "4">>,
     Str_pexpect \o <<">", "=", "4", ".", "8", ".", "0">> >>

\* the empty dict {}: a function with no key
extras_require == <<>>

\* setup() given a console entry point beside the script
SetupKwargs_EntryPoint(environ, cwd, argv) ==
  [name                 |-> "bl",
   version              |-> "1.0",
   include_package_data |-> TRUE,
   license              |-> "GPLv3",
   author               |-> "Carlo De Pieri",
   description          |-> "An utility to manage my bluetooth headsets and quickly fix them when they do not connect",
   scripts              |-> scripts,
   entry_points         |-> <<"bl-fix">>,
   install_requires     |-> install_requires,
   extras_require       |-> extras_require]

\* setup() given a version read from the environment
SetupKwargs_FromEnviron(environ, cwd, argv) ==
  [name                 |-> "bl",
   version              |-> IF "BL_VERSION" \in environ THEN "dev" ELSE "1.0",
   include_package_data |-> TRUE,
   license              |-> "GPLv3",
   author               |-> "Carlo De Pieri",
   description          |-> "An utility to manage my bluetooth headsets and quickly fix them when they do not connect",
   scripts              |-> scripts,
   install_requires     |-> install_requires,
   extras_require       |-> extras_require]

\* The keyword arguments handed to setup(). environ, cwd and argv are what a
\* run of setup.py could read; every argument is a literal and reads none.
SetupKwargs(environ, cwd, argv) ==
  [name                 |-> "bl",
   version              |-> "1.0",
   include_package_data |-> TRUE,
   license              |-> "GPLv3",
   author               |-> "Carlo De Pieri",
   description          |-> "An utility to manage my bluetooth headsets and quickly fix them when they do not connect",
   scripts              |-> scripts,
   install_requires     |-> install_requires,
   extras_require       |-> extras_require]

\* a keyword of setup(), or its default when the call does not give it
Keyword(kw, k, default) == IF k \in DOMAIN kw THEN kw[k] ELSE default

\* what setup() makes of its keyword arguments: the installable artifacts
\* and the requirements, absent keywords at their defaults
Distribution(kw) ==
  [name             |-> Keyword(kw, "name", "UNKNOWN"),
   version          |-> Keyword(kw, "version", "0.0.0"),
   scripts          |-> Keyword(kw, "scripts", <<>>),
   packages         |-> Keyword(kw, "packages", <<>>),
   py_modules       |-> Keyword(kw, "py_modules", <<>>),
   entry_points     |-> Keyword(kw, "entry_points", <<>>),
   install_requires |-> Keyword(kw, "install_requires", <<>>),
   extras_require   |-> Keyword(kw, "extras_require", <<>>)]

\* the files of the repository beside setup.py: the script it installs
SourceTree == {"setup.py", "bl"}

(***************************************************************************)
(* The target environment.                                                 *)
(***************************************************************************)
Versions ==
  {<<a, b, c>> : a \in 0..MaxMajor, b \in MinorSet, c \in PatchSet}

Projects == {Str_appdirs, Str_pexpect}

EnvNames == {"BL_VERSION"}

ExtraFiles == {"setup.cfg.bak"}

ExtraNames == {"gui"}

Commands == {"build", "install"}

VARIABLES
  phase,        \* position of the run of setup.py
  argv,         \* the command given to setup.py
  environ,      \* the environment variables that are set
  cwdExtra,     \* files of the working directory beside the source tree
  extras,       \* the extras asked for
  index,        \* the version of each project the target environment offers
  dist,         \* the metadata setup() was handed, once it has run
  buildScripts, \* the scripts copied to the build directory
  pending,      \* the requirements still to resolve
  resolved,     \* the <<project, version>> pairs chosen so far
  installedExe, \* the executables this package has put on the command path
  installedMod, \* the importable modules and packages it has installed
  error,        \* why the run failed, if it did
  drvPc,        \* position of a run of the installed bl
  child,        \* the Bluetooth control shell bl spawned
  step,         \* the command of the script bl is at
  attempts,     \* how often the command at step has been sent
  waited,       \* how long bl has waited for the expected pattern
  output,       \* what the child has printed since the last command
  sent,         \* the commands written to the child, in order
  seen          \* the steps whose expected pattern was observed

installVars ==
  <<phase, argv, environ, cwdExtra, extras, index, dist, buildScripts,
    pending, resolved, installedExe, installedMod, error>>

driverVars == <<drvPc, child, step, attempts, waited, output, sent, seen>>

vars == <<installVars, driverVars>>

NoDist == [name |-> None]

Init ==
  /\ phase = "start"
  /\ argv \in Commands
  /\ environ \in SUBSET EnvNames
  /\ cwdExtra \in SUBSET ExtraFiles
  /\ extras \in SUBSET ExtraNames
  /\ index \in [Projects -> Versions \cup {NoVersion}]
  /\ dist = NoDist
  /\ buildScripts = {}
  /\ pending = <<>>
  /\ resolved = {}
  /\ installedExe = {}
  /\ installedMod = {}
  /\ error = None
  /\ drvPc = "idle"
  /\ child = "none"
  /\ step = 1
  /\ attempts = 0
  /\ waited = 0
  /\ output = "nothing"
  /\ sent = <<>>
  /\ seen = {}

\* the version the environment offers for project p
IndexOf(p) == IF p \in DOMAIN index THEN index[p] ELSE NoVersion

RECURSIVE Concat(_)
Concat(ss) == IF ss = <<>> THEN <<>> ELSE Head(ss) \o Concat(Tail(ss))

RECURSIVE SetToSeq(_)
SetToSeq(S) ==
  IF S = {} THEN <<>>
  ELSE LET x == CHOOSE y \in S : TRUE IN <<x>> \o SetToSeq(S \ {x})

\* the requirements of a distribution installed with the extras wanted:
\* install_requires, then those of every wanted extra the package declares
Requires(d, wanted) ==
  LET known == SetToSeq(wanted \cap DOMAIN d.extras_require)
  IN  d.install_requires
        \o Concat([i \in 1..Len(known) |-> d.extras_require[known[i]]])

Range(s) == {s[i] : i \in 1..Len(s)}

\* the condition under which each step of the run can be taken; every step
\* assigns all of the state once its condition holds
CanRunSetup == phase = "start"

CanBuildScripts == phase = "build_scripts"

CanResolveRequirement == phase = "resolve" /\ pending # <<>>

CanInstallArtifacts == phase = "resolve" /\ pending = <<>>

\* python setup.py <command>: the module body runs and calls setup()
RunSetup ==
  /\ CanRunSetup
  /\ dist' = Distribution(SetupKwargs(environ, SourceTree \cup cwdExtra, argv))
  /\ phase' = "build_scripts"
  /\ UNCHANGED <<argv, environ, cwdExtra, extras, index, buildScripts,
                 pending, resolved, installedExe, installedMod, error>>
  /\ UNCHANGED driverVars

\* build_scripts: every file named in scripts is copied to the build
\* directory; a named file that does not exist ends the run
BuildScripts ==
  /\ CanBuildScripts
  /\ IF Range(dist.scripts) \subseteq (SourceTree \cup cwdExtra)
     THEN /\ buildScripts' = Range(dist.scripts)
          /\ error' = error
          /\ IF argv = "install"
             THEN /\ phase' = "resolve"
                  /\ pending' = Requires(dist, extras)
             ELSE /\ phase' = "done"
                  /\ pending' = pending
     ELSE /\ phase' = "failed"
          /\ error' = "script file does not exist"
          /\ UNCHANGED <<buildScripts, pending>>
  /\ UNCHANGED <<argv, environ, cwdExtra, extras, index, dist, resolved,
                 installedExe, installedMod>>
  /\ UNCHANGED driverVars

\* one requirement is resolved against the target environment
ResolveRequirement ==
  /\ CanResolveRequirement
  /\ LET r == ParseRequirement(Head(pending))
         v == IndexOf(r.name)
     IN  IF v # NoVersion /\ SpecifierContains(r, v)
         THEN /\ resolved' = resolved \cup {<<r.name, v>>}
              /\ pending' = Tail(pending)
              /\ UNCHANGED <<phase, error>>
         ELSE /\ phase' = "failed"
              /\ error' = "no matching distribution"
              /\ UNCHANGED <<resolved, pending>>
  /\ UNCHANGED <<argv, environ, cwdExtra, extras, index, dist, buildScripts,
                 installedExe, installedMod>>
  /\ UNCHANGED driverVars

\* install: the built scripts and the console entry points go on the
\* command path, the packages and modules into site-packages
InstallArtifacts ==
  /\ CanInstallArtifacts
  /\ installedExe' = buildScripts \cup Range(dist.entry_points)
  /\ installedMod' = Range(dist.packages) \cup Range(dist.py_modules)
  /\ phase' = "done"
  /\ UNCHANGED <<argv, environ, cwdExtra, extras, index, dist, buildScripts,
                 pending, resolved, error>>
  /\ UNCHANGED driverVars

Next ==
  \/ RunSetup
  \/ BuildScripts
  \/ ResolveRequirement
  \/ InstallArtifacts

Spec == Init /\ [][Next]_vars


(***************************************************************************)
(* Properties of the install.                                              *)
(***************************************************************************)

\* v >= a.b.c, written out on the three segments
AtLeast(v, a, b, c) ==
  \/ v[1] > a
  \/ v[1] = a /\ v[2] > b
  \/ v[1] = a /\ v[2] = b /\ v[3] >= c

\* the lower bound setup.py gives for project p
MeetsLowerBound(p, v) ==
  /\ v # NoVersion
  /\ p = Str_appdirs => AtLeast(v, 1, 4, 4)
  /\ p = Str_pexpect => AtLeast(v, 4, 8, 0)

\* the target environment can satisfy both declared requirements
DepsSatisfiable ==
  /\ MeetsLowerBound(Str_appdirs, index[Str_appdirs])
  /\ MeetsLowerBound(Str_pexpect, index[Str_pexpect])

\* C1: the package contributes no executable but bl and no module at all,
\* and once an install has completed the executables it has put on the
\* command path are exactly {bl}.
C1_InstallsExactlyBl ==
  /\ installedExe \subseteq {"bl"}
  /\ installedMod = {}
  /\ (phase = "done" /\ argv = "install") => installedExe = {"bl"}

C1_Witness ==
  /\ phase = "done"
  /\ argv = "install"
  /\ installedExe = {"bl"}
  /\ buildScripts = {"bl"}

C3_ExactlyTwoRequirements ==
  /\ phase # "start" =>
       /\ Len(dist.install_requires) = 2
       /\ {ParseRequirement(dist.install_requires[i]).name :
             i \in 1..Len(dist.install_requires)} = {Str_appdirs, Str_pexpect}
       /\ DOMAIN dist.extras_require = {}
  /\ Len(pending) <= 2
  /\ {pv[1] : pv \in resolved} \subseteq {Str_appdirs, Str_pexpect}
  /\ (phase = "done" /\ argv = "install") =>
       {pv[1] : pv \in resolved} = {Str_appdirs, Str_pexpect}

C3_Witness ==
  /\ phase = "done"
  /\ argv = "install"
  /\ extras = {"gui"}
  /\ {pv[1] : pv \in resolved} = {Str_appdirs, Str_pexpect}

\* C6: the metadata a run handed to setup() is the metadata any other run
\* hands it, whatever the environment variables, the contents of the
\* working directory and the command of that other run.
C6_MetadataIndependentOfRun ==
  phase # "start" =>
    \A e \in SUBSET EnvNames, c \in SUBSET ExtraFiles, a \in Commands :
      dist = Distribution(SetupKwargs(e, SourceTree \cup c, a))

C6_Witness ==
  /\ phase # "start"
  /\ environ = {"BL_VERSION"}
  /\ cwdExtra # {}
  /\ argv = "build"
  /\ dist.version = "1.0"

\* C7: a version of appdirs is accepted exactly when it is >= 1.4.4 and a
\* version of pexpect exactly when it is >= 4.8.0: every accepted version
\* meets the lower bound, and a requirement is refused only for a version
\* below it (or for none on offer).
C7_LowerBoundOnly ==
  /\ \A pv \in resolved : MeetsLowerBound(pv[1], pv[2])
  /\ (phase = "failed" /\ error = "no matching distribution") =>
       LET p == ParseRequirement(Head(pending)).name
       IN  ~MeetsLowerBound(p, IndexOf(p))
  /\ (phase = "resolve" /\ Len(pending) = 1) =>
       <<Str_appdirs, index[Str_appdirs]>> \in resolved

C7_Witness ==
  /\ phase = "done"
  /\ <<Str_appdirs, <<5, 9, 5>>>> \in resolved
  /\ <<Str_pexpect, <<4, 8, 0>>>> \in resolved


(***************************************************************************)
(* The Session Driver: a run of the installed bl.  It spawns the Bluetooth *)
(* control shell, writes the commands of its script to it one at a time    *)
(* and waits, up to a timeout, for the pattern each command is expected to *)
(* produce; a command whose pattern does not come is sent again.           *)
(***************************************************************************)
Script == <<"remove", "pair", "connect">>

\* a failed step passed over instead of tried again
StepAfterFailure_Skip(k) == k + 1

\* the step bl is at after the expected pattern of step k did not come:
\* the same one
StepAfterFailure(k) == k

\* a completed install of the package, the state a run of bl starts from
InitDriver ==
  /\ phase = "done"
  /\ argv = "install"
  /\ environ = {}
  /\ cwdExtra = {}
  /\ extras = {}
  /\ index = [p \in Projects |->
                IF p = Str_appdirs THEN <<1, 4, 4>> ELSE <<4, 8, 0>>]
  /\ dist = Distribution(SetupKwargs({}, SourceTree, "install"))
  /\ buildScripts = Range(dist.scripts)
  /\ pending = <<>>
  /\ resolved = {<<p, index[p]>> : p \in Projects}
  /\ installedExe = buildScripts
  /\ installedMod = {}
  /\ error = None
  /\ drvPc = "idle"
  /\ child = "none"
  /\ step = 1
  /\ attempts = 0
  /\ waited = 0
  /\ output = "nothing"
  /\ sent = <<>>
  /\ seen = {}

\* bl starts and spawns the control shell
Spawn ==
  /\ drvPc = "idle"
  /\ "bl" \in installedExe
  /\ child' = "running"
  /\ drvPc' = "send"
  /\ UNCHANGED <<step, attempts, waited, output, sent, seen>>
  /\ UNCHANGED installVars

\* the command at step is written to the child
SendCommand ==
  /\ drvPc = "send"
  /\ sent' = Append(sent, Script[step])
  /\ attempts' = attempts + 1
  /\ waited' = 0
  /\ output' = "nothing"
  /\ drvPc' = "expect"
  /\ UNCHANGED <<child, step, seen>>
  /\ UNCHANGED installVars

\* the child prints the expected pattern, or something else
ChildResponds ==
  /\ child = "running"
  /\ drvPc = "expect"
  /\ output = "nothing"
  /\ \E o \in {"expected", "other"} : output' = o
  /\ UNCHANGED <<drvPc, child, step, attempts, waited, sent, seen>>
  /\ UNCHANGED installVars

\* time passes while bl waits
Tick ==
  /\ drvPc = "expect"
  /\ output # "expected"
  /\ waited < Timeout
  /\ waited' = waited + 1
  /\ UNCHANGED <<drvPc, child, step, attempts, output, sent, seen>>
  /\ UNCHANGED installVars

\* the expected pattern is observed: on to the next command, or done
ExpectMatch ==
  /\ drvPc = "expect"
  /\ output = "expected"
  /\ seen' = seen \cup {step}
  /\ step' = step + 1
  /\ attempts' = 0
  /\ IF step = Len(Script)
     THEN drvPc' = "done" /\ child' = "closed"
     ELSE drvPc' = "send" /\ child' = child
  /\ UNCHANGED <<waited, output, sent>>
  /\ UNCHANGED installVars

\* the wait timed out: the command is tried again, until bl stops trying
ExpectTimeout ==
  /\ drvPc = "expect"
  /\ output # "expected"
  /\ waited = Timeout
  /\ IF attempts < MaxAttempts
     THEN /\ step' = StepAfterFailure(step)
          /\ drvPc' = IF step' > Len(Script) THEN "done" ELSE "send"
          /\ child' = child
     ELSE /\ step' = step
          /\ drvPc' = "gave_up"
          /\ child' = "closed"
  /\ UNCHANGED <<attempts, waited, output, sent, seen>>
  /\ UNCHANGED installVars

NextDriver ==
  \/ Spawn
  \/ SendCommand
  \/ ChildResponds
  \/ Tick
  \/ ExpectMatch
  \/ ExpectTimeout

SpecDriver == InitDriver /\ [][NextDriver]_vars

\* the place of a command in the script
Position(c) == CHOOSE k \in 1..Len(Script) : Script[k] = c

\* C4: the commands written to the child follow the script in order,
\* starting at its first: each is the one before it again (a retry) or the
\* next of the script (never one further on), a command beyond the first is
\* written only once the expected pattern of the one before it has been
\* observed, and bl has moved past a step only by observing its pattern.
C4_ScriptedInOrder ==
  /\ child # "none" => "bl" \in installedExe
  /\ sent # <<>> => Position(sent[1]) = 1
  /\ \A i \in 1..(Len(sent) - 1) :
       \/ Position(sent[i + 1]) = Position(sent[i])
       \/ Position(sent[i + 1]) = Position(sent[i]) + 1
  /\ \A i \in 1..Len(sent) :
       Position(sent[i]) > 1 => (Position(sent[i]) - 1) \in seen
  /\ \A k \in 1..(step - 1) : k \in seen
  /\ drvPc = "done" => seen = 1..Len(Script)

C4_Witness ==
  /\ drvPc = "done"
  /\ sent = <<"remove", "remove", "pair", "connect", "connect", "connect">>
  /\ seen = {1, 2, 3}

=============================================================================
